---- MODULE Spec2Model ----
(***************************************************************************)
(* Identity normalisation, conversation-key derivation, the connection     *)
(* alias registry and the message dispatcher of the WaveChat backend       *)
(* (src/index.js, socket handlers; src/db.js, tables).                     *)
(*                                                                         *)
(* Identifiers are JavaScript strings; they are modelled as sequences of   *)
(* one-character strings so that replace(/\D/g,''), slice(-10), split('_'),*)
(* sort() and join('_') are computed character by character.               *)
(***************************************************************************)
EXTENDS Integers, Sequences, FiniteSets, TLC

(***************************************************************************)
(* Strings                                                                 *)
(***************************************************************************)

\* The ten characters matched by \d, in code-unit order.
DigitChars == <<"0", "1", "2", "3", "4", "5", "6", "7", "8", "9">>

IsDigit(ch) == \E i \in 1..Len(DigitChars) : DigitChars[i] = ch

\* UTF-16 code unit of a digit, the order Array.prototype.sort compares by.
\* Only digit strings are ever sorted (every part went through clean).
CharCode(ch) == CHOOSE i \in 1..Len(DigitChars) : DigitChars[i] = ch

\* slice(-10) keeps the trailing ten characters.
KeyLen == 10

\* id.toString().replace(/\D/g, '').slice(-10)
clean(id) ==
    LET d == SelectSeq(id, IsDigit)
    IN  IF Len(d) <= KeyLen THEN d ELSE SubSeq(d, Len(d) - KeyLen + 1, Len(d))

Includes(s, ch) == \E i \in 1..Len(s) : s[i] = ch

RECURSIVE Split(_)
\* String.prototype.split('_')
Split(s) ==
    IF ~Includes(s, "_") THEN <<s>>
    ELSE LET i == CHOOSE k \in 1..Len(s) :
                      s[k] = "_" /\ \A j \in 1..(k - 1) : s[j] # "_"
         IN  <<SubSeq(s, 1, i - 1)>> \o Split(SubSeq(s, i + 1, Len(s)))

RECURSIVE StrLess(_, _)
\* a < b as JavaScript compares strings: code unit by code unit, a proper
\* prefix first.
StrLess(a, b) ==
    IF Len(b) = 0 THEN FALSE
    ELSE IF Len(a) = 0 THEN TRUE
    ELSE IF a[1] # b[1] THEN CharCode(a[1]) < CharCode(b[1])
    ELSE StrLess(Tail(a), Tail(b))

RECURSIVE InsertSorted(_, _)
InsertSorted(x, sorted) ==
    IF sorted = <<>> THEN <<x>>
    ELSE IF StrLess(x, Head(sorted)) THEN <<x>> \o sorted
    ELSE <<Head(sorted)>> \o InsertSorted(x, Tail(sorted))

RECURSIVE SortStrs(_)
\* Array.prototype.sort() without a comparator (stable, ascending).
SortStrs(parts) ==
    IF parts = <<>> THEN <<>>
    ELSE InsertSorted(parts[Len(parts)], SortStrs(SubSeq(parts, 1, Len(parts) - 1)))

RECURSIVE Join(_)
\* Array.prototype.join('_')
Join(parts) ==
    IF parts = <<>> THEN <<>>
    ELSE IF Len(parts) = 1 THEN parts[1]
    ELSE parts[1] \o <<"_">> \o Join(Tail(parts))

MapClean(parts) == [i \in 1..Len(parts) |-> clean(parts[i])]

\* const normChatId of send_message: an id that includes '_' is split, each
\* part cleaned, the parts sorted and joined again; any other id is kept.
NoSortNormChatId(safeChatId) ==
    IF Includes(safeChatId, "_")
    THEN Join(MapClean(Split(safeChatId)))
    ELSE safeChatId

normChatIdOf(safeChatId) ==
    IF Includes(safeChatId, "_")
    THEN Join(SortStrs(MapClean(Split(safeChatId))))
    ELSE safeChatId

(***************************************************************************)
(* Identifiers used as inputs                                              *)
(***************************************************************************)

KeyA == <<"9", "8", "7", "6", "5", "4", "3", "2", "1", "0">>
KeyB == <<"9", "1", "2", "3", "4", "5", "6", "7", "8", "9">>
KeyC == <<"9", "1", "2", "3", "4", "5", "6", "7", "8", "0">>

\* The ways a client writes the number in front of the ten digits.
Prefixes == {<<>>, <<"+", "9", "1">>, <<"9", "1">>, <<"0">>}

Spell(prefix, key) == prefix \o key

Chat(a, b) == a \o <<"_">> \o b

(***************************************************************************)
(* State                                                                   *)
(*                                                                         *)
(* A handler runs without interruption up to its next await.  Each awaited *)
(* database call is one step of the model: the statement takes effect (or  *)
(* is rejected, ok = FALSE) and the handler continues to its next await in *)
(* the same step.  Steps of different handlers interleave freely.          *)
(***************************************************************************)

VARIABLES
    conn,           \* socket of each connection slot: "idle", "open", "closed"
    rooms,          \* adapter: the rooms each socket has joined
    registered,     \* history: the raw ids each socket has registered
    lookups,        \* pending auto-join queries started by register
    messages,       \* table messages, in id order
    groups_table,   \* table groups_table
    group_members,  \* table group_members, in id order
    sends,          \* send_message dispatches, in arrival order
    creates,        \* create_group handlers, in arrival order
    kIn,            \* key derivation on its own: the two raw participants
    kOut,           \* key derivation on its own: <<key of a_b, key of b_a>>
    now,            \* the clock, in half days since the server started
    driver,         \* the database initDB connected to: "sqlite" or "mysql"
    status,         \* table status, in id order
    requests,       \* requests to /api/status, in arrival order
    calls           \* call-signalling events, in arrival order

vars == <<conn, rooms, registered, lookups, messages, groups_table,
          group_members, sends, creates, kIn, kOut,
          now, driver, status, requests, calls>>

(***************************************************************************)
(* Bounds and input sets                                                   *)
(***************************************************************************)

NumConns == 2
MaxRegs == 2
MaxGroupRegs == 1
MaxRegistryRegs == 2
RegistryConns == 1
MaxSends == 1
MaxCreates == 1

Conns == 1..NumConns

\* Socket.IO room membership after a sequence of socket.join calls.
JoinRoomsReplacing(rs, c, new) == [rs EXCEPT ![c] = new]

JoinRooms(rs, c, new) == [rs EXCEPT ![c] = @ \cup new]

\* socket.join(room) called from a callback, where the socket may have
\* disconnected meanwhile.  On an open socket the rooms are added.  On a
\* disconnected one the outcome depends on the Socket.IO release the server
\* runs, which the sources do not fix: releases that turn join into a no-op at
\* disconnect add nothing, the others add the rooms to the adapter again.
SocketJoin(cn, rs, c, new) ==
    IF cn[c] = "open" THEN {JoinRooms(rs, c, new)}
    ELSE {rs, JoinRooms(rs, c, new)}

\* io.to(room).emit(...), once per entry of targets, in order: each call
\* reaches the open sockets that are in the room at that moment.
EmitTo(cn, rs, targets) ==
    [k \in 1..Len(targets) |->
        [room |-> targets[k],
         rcpt |-> {c \in Conns : cn[c] = "open" /\ targets[k] \in rs[c]}]]

SysInit ==
    /\ conn = [c \in Conns |-> "idle"]
    /\ rooms = [c \in Conns |-> {}]
    /\ registered = [c \in Conns |-> {}]
    /\ lookups = {}
    /\ messages = <<>>
    /\ groups_table = {}
    /\ group_members = <<>>
    /\ sends = <<>>
    /\ creates = <<>>
    /\ now = 0
    /\ status = <<>>
    /\ requests = <<>>
    /\ calls = <<>>

(***************************************************************************)
(* Connection alias registry                                               *)
(***************************************************************************)

\* io.on('connection'): a new socket, in no room of the model.  Slots are
\* taken in order and never reused.
Connect(c) ==
    /\ conn[c] = "idle"
    /\ \A b \in 1..(c - 1) : conn[b] # "idle"
    /\ conn' = [conn EXCEPT ![c] = "open"]
    /\ UNCHANGED <<rooms, registered, lookups, messages, groups_table,
                   group_members, sends, creates, kIn, kOut,
                   now, driver, status, requests, calls>>

\* disconnect: the handler is empty; Socket.IO itself takes the socket out of
\* every room it is in.
Disconnect(c) ==
    /\ conn[c] = "open"
    /\ conn' = [conn EXCEPT ![c] = "closed"]
    /\ rooms' = [rooms EXCEPT ![c] = {}]
    /\ UNCHANGED <<registered, lookups, messages, groups_table,
                   group_members, sends, creates, kIn, kOut,
                   now, driver, status, requests, calls>>

\* socket.on('join_chat')
JoinChat(c, chatId) ==
    /\ conn[c] = "open"
    /\ rooms' = JoinRooms(rooms, c, {chatId})
    /\ UNCHANGED <<conn, registered, lookups, messages, groups_table,
                   group_members, sends, creates, kIn, kOut,
                   now, driver, status, requests, calls>>

\* The rooms the synchronous part of register joins.
AnyLengthRegisterRooms(userId) ==
    LET normalized == clean(userId)
    IN  {userId} \cup (IF normalized # userId THEN {normalized} ELSE {})

RegisterRooms(userId) ==
    LET normalized == clean(userId)
    IN  {userId} \cup
        (IF Len(normalized) = KeyLen /\ normalized # userId
         THEN {normalized} ELSE {})

\* socket.on('register'): an empty id returns at once; otherwise the joins
\* happen now and the two group queries are left pending.
Register(c, userId) ==
    /\ conn[c] = "open"
    /\ IF userId = <<>>
       THEN UNCHANGED <<rooms, registered, lookups>>
       ELSE /\ rooms' = JoinRooms(rooms, c, RegisterRooms(userId))
            /\ registered' = [registered EXCEPT ![c] = @ \cup {userId}]
            /\ lookups' = lookups \cup
                  {[conn |-> c, kind |-> k, userId |-> userId,
                    normalized |-> clean(userId)] : k \in {"member", "creator"}}
    /\ UNCHANGED <<conn, messages, groups_table, group_members, sends,
                   creates, kIn, kOut,
                   now, driver, status, requests, calls>>

\* Result rows of the two queries of register.
LookupGroupsRawCreator(l) ==
    IF l.kind = "member"
    THEN {group_members[i].groupId : i \in
            {j \in 1..Len(group_members) : group_members[j].userId = l.normalized}}
    ELSE {g.id : g \in {h \in groups_table : h.createdBy = l.userId}}

LookupGroups(l) ==
    IF l.kind = "member"
    THEN {group_members[i].groupId : i \in
            {j \in 1..Len(group_members) : group_members[j].userId = l.normalized}}
    ELSE {g.id : g \in
            {h \in groups_table : h.createdBy = l.userId \/ h.createdBy = l.normalized}}

\* A query of register settles: the .then callback joins every group found,
\* the .catch callback does nothing.
LookupDone(l, ok) ==
    /\ l \in lookups
    /\ lookups' = lookups \ {l}
    /\ rooms' \in IF ok THEN SocketJoin(conn, rooms, l.conn, LookupGroups(l))
                  ELSE {rooms}
    /\ UNCHANGED <<conn, registered, messages, groups_table, group_members,
                   sends, creates, kIn, kOut,
                   now, driver, status, requests, calls>>

(***************************************************************************)
(* Message dispatcher: socket.on('send_message')                           *)
(***************************************************************************)

\* `${parts[1]}_${parts[0]}`
Reversed(parts) == Chat(parts[2], parts[1])

\* normParts.find(p => p !== clean(sender)), as a sequence of at most one
\* element; the emit is guarded by if (normReceiver), so an empty string is
\* left out as well.
NormReceiver(parts, sender) ==
    LET normParts == MapClean(parts)
        NotSender(p) == p # clean(sender)
        found == SelectSeq(normParts, NotSender)
    IN  IF found # <<>> /\ found[1] # <<>> THEN <<found[1]>> ELSE <<>>

\* The four emits of the private branch, in order.
PrivateTargetsNoSender(safeChatId, sender) ==
    LET parts == Split(safeChatId)
    IN  <<safeChatId, Reversed(parts)>> \o NormReceiver(parts, sender)

PrivateTargets(safeChatId, sender) ==
    LET parts == Split(safeChatId)
    IN  <<safeChatId, Reversed(parts)>> \o NormReceiver(parts, sender)
            \o <<clean(sender)>>

\* safeEmit of send_message: the raw id, and for a non-empty cleaned id the
\* cleaned id and the '+'-prefixed cleaned id.
SafeEmitTargets(targetId) ==
    IF targetId = <<>> THEN <<>>
    ELSE <<targetId>> \o
         (IF clean(targetId) # <<>>
          THEN <<clean(targetId), <<"+">> \o clean(targetId)>>
          ELSE <<>>)

\* "Legacy Fix" inside the permission-check block: creator raw and cleaned.
NoLegacyTargets(info) == <<>>

LegacyTargets(info) ==
    IF info # <<>> /\ info[1].createdBy # <<>>
    THEN <<info[1].createdBy, clean(info[1].createdBy)>>
    ELSE <<>>

\* Steps 1 and 2 of the group broadcast.  Step 3 reads groupInfo, a const of
\* the try block above it, outside that block: the read throws a
\* ReferenceError, the outer catch logs it, and steps 3 and 4 never run.
GroupTargets(safeChatId, sender) == <<safeChatId>> \o SafeEmitTargets(sender)

\* db.get("SELECT type, createdBy FROM groups_table WHERE id = ?")
GroupInfo(id) ==
    IF \E g \in groups_table : g.id = id
    THEN <<CHOOSE g \in groups_table : g.id = id>>
    ELSE <<>>

\* db.get("SELECT role FROM group_members WHERE groupId = ? AND userId = ?"):
\* the first matching row, if any.
MemberRole(groupId, userId) ==
    LET hits == {j \in 1..Len(group_members) :
                    /\ group_members[j].groupId = groupId
                    /\ group_members[j].userId = userId}
    IN  IF hits = {} THEN <<>>
        ELSE <<group_members[CHOOSE j \in hits : \A k \in hits : j <= k].role>>

\* if (!chatId || !sender): a missing field is undefined, which the test
\* treats like the empty string.
DiscardsEmptyChatOnly(chatId, sender) == chatId = <<>>

Discards(chatId, sender) == chatId = <<>> \/ sender = <<>>

\* The handler up to its first await: validation, canonicalization and the
\* INSERT handed to the database.  An event that fails validation is logged
\* and the handler returns; sends keeps it as a finished dispatch.
SendMessage(c, chatId, sender) ==
    /\ conn[c] = "open"
    /\ sends' = Append(sends,
          IF Discards(chatId, sender)
          THEN [conn |-> c, chatId |-> chatId, sender |-> sender,
                normChatId |-> <<>>, pc |-> "done",
                outcome |-> "rejected", info |-> <<>>, emits |-> <<>>]
          ELSE [conn |-> c, chatId |-> chatId, sender |-> sender,
                normChatId |-> normChatIdOf(chatId), pc |-> "insert",
                outcome |-> "pending", info |-> <<>>, emits |-> <<>>])
    /\ UNCHANGED <<conn, rooms, registered, lookups, messages, groups_table,
                   group_members, creates, kIn, kOut,
                   now, driver, status, requests, calls>>

\* The end of the group branch: the two emits that run, then the throw.
FinishGroup(d, cn, rs) ==
    [d EXCEPT !.pc = "done", !.outcome = "refError",
              !.emits = @ \o EmitTo(cn, rs, GroupTargets(d.chatId, d.sender))]

\* What the dispatch does once the INSERT has succeeded, up to its next await.
AfterInsert(d) ==
    LET parts == Split(d.chatId)
    IN  IF Len(parts) = 2
        THEN [d EXCEPT !.pc = "done", !.outcome = "sent",
                       !.emits = EmitTo(conn, rooms,
                                        PrivateTargets(d.chatId, d.sender))]
        ELSE [d EXCEPT !.pc = "groupInfo"]

\* catch (err) of the handler: the rejection is logged, nothing else happens.
InsertFailedAfterFanout(d) ==
    [d EXCEPT !.pc = "done", !.outcome = "insertError",
              !.emits = EmitTo(conn, rooms, <<d.chatId>>)]

InsertFailed(d) == [d EXCEPT !.pc = "done", !.outcome = "insertError"]

\* The INSERT settles.  A rejection goes to the outer catch: nothing is
\* stored, nothing emitted.  Otherwise the row exists and the handler goes on:
\* the private fanout, or the forced join and the groupInfo query.
InsertDone(i, ok) ==
    /\ i \in 1..Len(sends)
    /\ sends[i].pc = "insert"
    /\ IF ~ok
       THEN /\ sends' = [sends EXCEPT ![i] = InsertFailed(@)]
            /\ UNCHANGED <<messages, rooms>>
       ELSE /\ messages' = Append(messages,
                    [id |-> Len(messages) + 1, chatId |-> sends[i].normChatId,
                     sender |-> sends[i].sender, send |-> i])
            /\ sends' = [sends EXCEPT ![i] = AfterInsert(@)]
            /\ rooms' \in IF Len(Split(sends[i].chatId)) = 2 THEN {rooms}
                          ELSE SocketJoin(conn, rooms, sends[i].conn,
                                          {sends[i].chatId})
    /\ UNCHANGED <<conn, registered, lookups, groups_table, group_members,
                   creates, kIn, kOut,
                   now, driver, status, requests, calls>>

\* The groupInfo query settles.  A rejection is caught by the inner catch and
\* the broadcast goes on.  Otherwise the legacy emits to the creator run, and a
\* private group waits for the sender's membership row.
GroupInfoDone(i, ok) ==
    /\ i \in 1..Len(sends)
    /\ sends[i].pc = "groupInfo"
    /\ LET d == sends[i]
           info == GroupInfo(d.chatId)
           legacy == [d EXCEPT !.info = info,
                               !.emits = @ \o EmitTo(conn, rooms, LegacyTargets(info))]
       IN  sends' = [sends EXCEPT ![i] =
                IF ~ok THEN FinishGroup(d, conn, rooms)
                ELSE IF info # <<>> /\ info[1].type = "private"
                     THEN [legacy EXCEPT !.pc = "member"]
                     ELSE FinishGroup(legacy, conn, rooms)]
    /\ UNCHANGED <<conn, rooms, registered, lookups, messages, groups_table,
                   group_members, creates, kIn, kOut,
                   now, driver, status, requests, calls>>

\* if (!member || member.role !== 'admin')
Blocked(role) == role = <<>> \/ role[1] # "admin"

\* The membership query of a private group settles.  A rejection is caught by
\* the inner catch and the broadcast goes on; a sender without an admin row
\* returns; an admin goes on to the broadcast.
MemberDone(i, ok) ==
    /\ i \in 1..Len(sends)
    /\ sends[i].pc = "member"
    /\ LET d == sends[i]
           role == MemberRole(d.chatId, clean(d.sender))
       IN  sends' = [sends EXCEPT ![i] =
                IF ok /\ Blocked(role)
                THEN [d EXCEPT !.pc = "done", !.outcome = "blocked"]
                ELSE FinishGroup(d, conn, rooms)]
    /\ UNCHANGED <<conn, rooms, registered, lookups, messages, groups_table,
                   group_members, creates, kIn, kOut,
                   now, driver, status, requests, calls>>

(***************************************************************************)
(* socket.on('create_group')                                               *)
(***************************************************************************)

\* The emits to one member of the list: raw id, and for a non-empty cleaned
\* id the cleaned id and the '+'-prefixed cleaned id.
MemberNotifyTargets(m) ==
    <<m.id>> \o
    (IF clean(m.id) # <<>> THEN <<clean(m.id), <<"+">> \o clean(m.id)>> ELSE <<>>)

\* groupData.members.find(m => clean(m.id) === creatorId)
AlreadyAdded(data) ==
    \E k \in 1..Len(data.members) : clean(data.members[k].id) = clean(data.createdBy)

\* Where the handler stands after member k of the list: the next member, the
\* creator's own row, or the end.
AfterMember(data, k) ==
    IF k < Len(data.members) THEN "member"
    ELSE IF data.createdBy # <<>> /\ ~AlreadyAdded(data) THEN "creator"
    ELSE "done"

\* The handler up to its first await: the INSERT into groups_table.
CreateGroup(data) ==
    /\ creates' = Append(creates, [data |-> data, pc |-> "group", idx |-> 0,
                                   emits |-> <<>>])
    /\ UNCHANGED <<conn, rooms, registered, lookups, messages, groups_table,
                   group_members, sends, kIn, kOut,
                   now, driver, status, requests, calls>>

KeyNeverTaken(id) == FALSE

\* id VARCHAR(255) PRIMARY KEY: a row of this id is in groups_table.
KeyTaken(id) == \E g \in groups_table : g.id = id

\* The INSERT into groups_table settles; id is the primary key, so a second
\* row of the same id is rejected.  A rejection ends the handler in its catch.
\* (ok = FALSE is also what a groups_table made by createTables of db.js
\* answers, which has no column "type"; the handlers are written for a table
\* that has it.)
GroupInsertDone(i, ok) ==
    /\ i \in 1..Len(creates)
    /\ creates[i].pc = "group"
    /\ LET data == creates[i].data
           stored == ok /\ ~KeyTaken(data.id)
       IN  IF stored
           THEN /\ groups_table' = groups_table \cup
                      {[id |-> data.id, createdBy |-> data.createdBy,
                        type |-> data.type]}
                /\ creates' = [creates EXCEPT ![i] =
                      [@ EXCEPT !.pc = AfterMember(data, 0)]]
           ELSE /\ creates' = [creates EXCEPT ![i] = [@ EXCEPT !.pc = "done"]]
                /\ UNCHANGED groups_table
    /\ UNCHANGED <<conn, rooms, registered, lookups, messages, group_members,
                   sends, kIn, kOut,
                   now, driver, status, requests, calls>>

\* The INSERT of the next member's row settles (a rejection is swallowed), the
\* member is notified, and the loop goes on.
MemberInsertDone(i, ok) ==
    /\ i \in 1..Len(creates)
    /\ creates[i].pc = "member"
    /\ LET data == creates[i].data
           k == creates[i].idx + 1
           m == data.members[k]
       IN  /\ group_members' =
                 IF ok
                 THEN Append(group_members,
                        [groupId |-> data.id, userId |-> clean(m.id),
                         role |-> IF m.isAdmin THEN "admin" ELSE "member"])
                 ELSE group_members
           /\ creates' = [creates EXCEPT ![i] =
                 [@ EXCEPT !.idx = k, !.pc = AfterMember(data, k),
                           !.emits = @ \o MemberNotifyTargets(m)]]
    /\ UNCHANGED <<conn, rooms, registered, lookups, messages, groups_table,
                   sends, kIn, kOut,
                   now, driver, status, requests, calls>>

\* The INSERT of the creator's admin row settles; a rejection ends in the
\* handler's catch.
CreatorInsertDone(i, ok) ==
    /\ i \in 1..Len(creates)
    /\ creates[i].pc = "creator"
    /\ LET data == creates[i].data
       IN  /\ group_members' =
                 IF ok
                 THEN Append(group_members,
                        [groupId |-> data.id, userId |-> clean(data.createdBy),
                         role |-> "admin"])
                 ELSE group_members
           /\ creates' = [creates EXCEPT ![i] = [@ EXCEPT !.pc = "done"]]
    /\ UNCHANGED <<conn, rooms, registered, lookups, messages, groups_table,
                   sends, kIn, kOut,
                   now, driver, status, requests, calls>>

(***************************************************************************)
(* Status posts: POST and GET /api/status                                  *)
(*                                                                         *)
(* Both routes are added to the Express app inside the connection          *)
(* callback: there is none before the first socket connects, and one more  *)
(* copy of each for every further socket.  Express hands a request to the  *)
(* first matching copy, which answers it, so the later copies never run; a *)
(* request that matches no route is answered 404.                          *)
(***************************************************************************)

\* 24 * 60 * 60 * 1000 ms, in ticks of the clock.
TicksPerDay == 2

\* new Date(t).toISOString(): 'YYYY-MM-DDTHH:mm:ss.sssZ', kept as the date,
\* the separator and the time of day.
toISOString(t) == <<t \div TicksPerDay, "T", t % TicksPerDay>>

\* CURRENT_TIMESTAMP: 'YYYY-MM-DD HH:MM:SS', in UTC.
CurrentTimestamp(t) == <<t \div TicksPerDay, " ", t % TicksPerDay>>

\* The point in time an ISO string names.
DateParse(text) == text[1] * TicksPerDay + text[3]

\* What column expiresAt DATETIME holds after the INSERT of an ISO string:
\* SQLite keeps the text as it is, MySQL converts it to a DATETIME value.
StoredDatetime(drv, text) ==
    IF drv = "mysql" THEN [text EXCEPT ![2] = " "] ELSE text

\* Character code of the separator.
SepCode(ch) == IF ch = "T" THEN 84 ELSE 32

\* a > b as the database compares the two values, from the left: the date
\* (fixed-width digits, ordered like the number), then the separator, then the
\* time of day.
After(a, b) ==
    \/ a[1] > b[1]
    \/ a[1] = b[1] /\ SepCode(a[2]) > SepCode(b[2])
    \/ a[1] = b[1] /\ a[2] = b[2] /\ a[3] > b[3]

\* ORDER BY timestamp DESC; rows of equal timestamp stay in table order.
InsertByTimestamp(row, sorted) ==
    LET Newer(r) == ~After(row.timestamp, r.timestamp)
        Older(r) == After(row.timestamp, r.timestamp)
    IN  SelectSeq(sorted, Newer) \o <<row>> \o SelectSeq(sorted, Older)

RECURSIVE OrderByTimestampDesc(_)
OrderByTimestampDesc(rows) ==
    IF rows = <<>> THEN <<>>
    ELSE InsertByTimestamp(rows[Len(rows)],
                           OrderByTimestampDesc(SubSeq(rows, 1, Len(rows) - 1)))

\* SELECT * FROM status WHERE expiresAt > CURRENT_TIMESTAMP ORDER BY timestamp DESC
SelectStatus(t) ==
    LET Live(row) == After(row.expiresAt, CurrentTimestamp(t))
    IN  OrderByTimestampDesc(SelectSeq(status, Live))

\* Copies of the two routes added so far: one per socket that ever connected.
StatusRoutes == Cardinality({c \in Conns : conn[c] # "idle"})

\* A request that matched no route.
NotFound(method) ==
    [method |-> method, pc |-> "done", code |-> 404, at |-> now,
     expiresAt |-> <<>>, emits |-> <<>>, rows |-> <<>>]

\* Time passes.
Tick ==
    /\ now' = now + 1
    /\ UNCHANGED <<conn, rooms, registered, lookups, messages, groups_table,
                   group_members, sends, creates, kIn, kOut, driver, status,
                   requests, calls>>

\* POST /api/status arrives: the handler computes expiresAt and hands the
\* INSERT to the database.
PostStatus ==
    /\ requests' = Append(requests,
          IF StatusRoutes = 0 THEN NotFound("POST")
          ELSE [method |-> "POST", pc |-> "insert", code |-> 0, at |-> now,
                expiresAt |-> toISOString(now + TicksPerDay),
                emits |-> <<>>, rows |-> <<>>])
    /\ UNCHANGED <<conn, rooms, registered, lookups, messages, groups_table,
                   group_members, sends, creates, kIn, kOut, now, driver,
                   status, calls>>

\* io.emit('new_status'): every connected socket, whatever rooms it is in.
EmitAll(cn, rs) == <<[rcpt |-> {c \in Conns : cn[c] = "open"}]>>

\* The INSERT of a status post settles: the row is stored, new_status goes to
\* every connected socket and the answer is 200; a rejection is answered 500.
StatusInsertDone(i, ok) ==
    /\ i \in 1..Len(requests)
    /\ requests[i].pc = "insert"
    /\ IF ok
       THEN /\ status' = Append(status,
                  [id |-> Len(status) + 1, post |-> i,
                   expiresAt |-> StoredDatetime(driver, requests[i].expiresAt),
                   timestamp |-> CurrentTimestamp(now)])
            /\ requests' = [requests EXCEPT ![i] =
                  [@ EXCEPT !.pc = "done", !.code = 200,
                            !.emits = EmitAll(conn, rooms)]]
       ELSE /\ requests' = [requests EXCEPT ![i] =
                  [@ EXCEPT !.pc = "done", !.code = 500]]
            /\ UNCHANGED status
    /\ UNCHANGED <<conn, rooms, registered, lookups, messages, groups_table,
                   group_members, sends, creates, kIn, kOut, now, driver, calls>>

\* GET /api/status arrives: the handler hands the SELECT to the database.
ListStatus ==
    /\ requests' = Append(requests,
          IF StatusRoutes = 0 THEN NotFound("GET")
          ELSE [method |-> "GET", pc |-> "query", code |-> 0, at |-> now,
                expiresAt |-> <<>>, emits |-> <<>>, rows |-> <<>>])
    /\ UNCHANGED <<conn, rooms, registered, lookups, messages, groups_table,
                   group_members, sends, creates, kIn, kOut, now, driver,
                   status, calls>>

\* The SELECT settles: the rows it found at that moment are the answer; a
\* rejection is answered 500.  at keeps the time the SELECT ran.
ListDone(i, ok) ==
    /\ i \in 1..Len(requests)
    /\ requests[i].pc = "query"
    /\ requests' = [requests EXCEPT ![i] =
          IF ok
          THEN [@ EXCEPT !.pc = "done", !.code = 200, !.at = now,
                         !.rows = SelectStatus(now)]
          ELSE [@ EXCEPT !.pc = "done", !.code = 500, !.at = now]]
    /\ UNCHANGED <<conn, rooms, registered, lookups, messages, groups_table,
                   group_members, sends, creates, kIn, kOut, now, driver,
                   status, calls>>

(***************************************************************************)
(* Call signalling: call_user, reject_call, end_call, group_call           *)
(***************************************************************************)

\* The room a one-to-one signal goes to: cleanTo, whatever its length.
CallTargetsAliases(id) == SafeEmitTargets(id)

CallTargets(id) == <<clean(id)>>

\* The three one-to-one handlers are the same code: clean the id they are
\* given and emit once to that room.  Nothing is stored.
Signal(c, event, id) ==
    /\ conn[c] = "open"
    /\ calls' = Append(calls,
          [event |-> event, conn |-> c, id |-> id, groupId |-> <<>>,
           pc |-> "done", emits |-> EmitTo(conn, rooms, CallTargets(id))])
    /\ UNCHANGED <<conn, rooms, registered, lookups, messages, groups_table,
                   group_members, sends, creates, kIn, kOut, now, driver,
                   status, requests>>

\* socket.on('call_user'): incoming_call to the receiver.
CallUser(c, receiverId) == Signal(c, "call_user", receiverId)

\* socket.on('reject_call'): call_rejected to the caller.
RejectCall(c, callerId) == Signal(c, "reject_call", callerId)

\* socket.on('end_call'): call_ended to the receiver.
EndCall(c, receiverId) == Signal(c, "end_call", receiverId)

\* safeEmit of group_call: nothing for an empty id; otherwise the id as it
\* is, and for a non-empty cleaned id the cleaned id and '+' + cleaned id.
CallSafeEmitTargets(targetId) ==
    IF targetId = <<>> THEN <<>>
    ELSE <<targetId>> \o
         (IF clean(targetId) # <<>>
          THEN <<clean(targetId), <<"+">> \o clean(targetId)>>
          ELSE <<>>)

\* members.forEach: safeEmit for every row whose cleaned userId is not the
\* caller's.
RECURSIVE GroupCallTargetsAll(_, _)
GroupCallTargetsAll(members, cleanFrom) ==
    IF members = <<>> THEN <<>>
    ELSE CallSafeEmitTargets(Head(members))
            \o GroupCallTargetsAll(Tail(members), cleanFrom)

RECURSIVE GroupCallTargets(_, _)
GroupCallTargets(members, cleanFrom) ==
    IF members = <<>> THEN <<>>
    ELSE (IF clean(Head(members)) # cleanFrom
          THEN CallSafeEmitTargets(Head(members)) ELSE <<>>)
            \o GroupCallTargets(Tail(members), cleanFrom)

\* db.all("SELECT userId FROM group_members WHERE groupId = ?")
GroupMemberIds(groupId) ==
    LET OfGroup(row) == row.groupId = groupId
        rows == SelectSeq(group_members, OfGroup)
    IN  [k \in 1..Len(rows) |-> rows[k].userId]

\* socket.on('group_call') up to its await: the membership query.
GroupCall(c, groupId, from) ==
    /\ conn[c] = "open"
    /\ calls' = Append(calls,
          [event |-> "group_call", conn |-> c, id |-> from, groupId |-> groupId,
           pc |-> "members", emits |-> <<>>])
    /\ UNCHANGED <<conn, rooms, registered, lookups, messages, groups_table,
                   group_members, sends, creates, kIn, kOut, now, driver,
                   status, requests>>

\* The membership query settles: incoming_call goes out for the rows found; a
\* rejection is logged and nothing is emitted.
GroupCallDone(i, ok) ==
    /\ i \in 1..Len(calls)
    /\ calls[i].pc = "members"
    /\ calls' = [calls EXCEPT ![i] =
          IF ok
          THEN [@ EXCEPT !.pc = "done",
                         !.emits = EmitTo(conn, rooms,
                             GroupCallTargets(GroupMemberIds(calls[i].groupId),
                                              clean(calls[i].id)))]
          ELSE [@ EXCEPT !.pc = "done"]]
    /\ UNCHANGED <<conn, rooms, registered, lookups, messages, groups_table,
                   group_members, sends, creates, kIn, kOut, now, driver,
                   status, requests>>

(***************************************************************************)
(* Conversation history: GET /api/messages/:chatId                         *)
(***************************************************************************)

\* const normChatId of the route: split, clean, sort and join, whether or not
\* the id includes '_'.
HistoryNormChatId(chatId) == Join(SortStrs(MapClean(Split(chatId))))

\* SELECT * FROM messages WHERE chatId = ? OR chatId = ? ORDER BY timestamp ASC
SelectMessages(chatId) ==
    LET Hit(row) == row.chatId = chatId \/ row.chatId = HistoryNormChatId(chatId)
    IN  SelectSeq(messages, Hit)

\* The request arrives: the handler hands the SELECT to the database.
FetchMessages(chatId) ==
    /\ requests' = Append(requests,
          [method |-> "GET messages", pc |-> "select", code |-> 0,
           chatId |-> chatId, rows |-> <<>>])
    /\ UNCHANGED <<conn, rooms, registered, lookups, messages, groups_table,
                   group_members, sends, creates, kIn, kOut, now, driver,
                   status, calls>>

\* The SELECT settles: the rows found at that moment are the answer; a
\* rejection is answered 500.
FetchDone(i, ok) ==
    /\ i \in 1..Len(requests)
    /\ requests[i].pc = "select"
    /\ requests' = [requests EXCEPT ![i] =
          IF ok
          THEN [@ EXCEPT !.pc = "done", !.code = 200,
                         !.rows = SelectMessages(requests[i].chatId)]
          ELSE [@ EXCEPT !.pc = "done", !.code = 500]]
    /\ UNCHANGED <<conn, rooms, registered, lookups, messages, groups_table,
                   group_members, sends, creates, kIn, kOut, now, driver,
                   status, calls>>

(***************************************************************************)
(* Key derivation on its own                                               *)
(***************************************************************************)

KeyInputs == {[prefix |-> p, key |-> k] : p \in Prefixes, k \in {KeyA, KeyB, KeyC}}

Raw(x) == Spell(x.prefix, x.key)

\* normChatId for the chat id written a_b and for the one written b_a.
DeriveKey ==
    /\ kOut = <<>>
    /\ kOut' = <<normChatIdOf(Chat(Raw(kIn[1]), Raw(kIn[2]))),
                 normChatIdOf(Chat(Raw(kIn[2]), Raw(kIn[1])))>>
    /\ UNCHANGED <<conn, rooms, registered, lookups, messages, groups_table,
                   group_members, sends, creates, kIn,
                   now, driver, status, requests, calls>>

KeyInit ==
    /\ SysInit
    /\ driver = "sqlite"
    /\ driver = "sqlite"
    /\ kIn \in KeyInputs \X KeyInputs
    /\ kOut = <<>>

KeyNext == DeriveKey

KeySpec == KeyInit /\ [][KeyNext]_vars

(***************************************************************************)
(* The server: private chats and ids of groups that do not exist           *)
(***************************************************************************)

UserA == KeyA
UserAcc == Spell(<<"+", "9", "1">>, KeyA)
UserBcc == Spell(<<"+", "9", "1">>, KeyB)

GroupId1 == <<"g", "1">>
GroupIdParts == <<"g", "_", "1", "_", "2">>

RegisterIds == {UserA, UserAcc, UserBcc}
Senders == {UserA, UserBcc}
ChatIds == {Chat(UserA, KeyB), Chat(UserBcc, UserAcc), GroupId1, GroupIdParts}

\* Registrations made so far, counted for the bound on them.
RegCount == Cardinality({<<c, u>> \in Conns \X RegisterIds : u \in registered[c]})

Init ==
    /\ SysInit
    /\ driver = "sqlite"
    /\ kIn = <<>>
    /\ kOut = <<>>

Next ==
    \/ \E c \in Conns : Connect(c)
    \/ \E c \in Conns : Disconnect(c)
    \/ \E c \in Conns, u \in RegisterIds :
          (u \in registered[c] \/ RegCount < MaxRegs) /\ Register(c, u)
    \/ \E l \in lookups, ok \in BOOLEAN : LookupDone(l, ok)
    \/ \E c \in Conns, chatId \in ChatIds, sender \in Senders :
          Len(sends) < MaxSends /\ SendMessage(c, chatId, sender)
    \/ \E i \in 1..Len(sends), ok \in BOOLEAN : InsertDone(i, ok)
    \/ \E i \in 1..Len(sends), ok \in BOOLEAN : GroupInfoDone(i, ok)

Spec == Init /\ [][Next]_vars

(***************************************************************************)
(* The server: groups                                                      *)
(***************************************************************************)

GroupRegisterIds == {UserAcc, UserBcc}
GroupChatIds == {GroupId1}
GroupDatas ==
    {[id |-> GroupId1, createdBy |-> UserA, type |-> t,
      members |-> <<[id |-> UserBcc, isAdmin |-> adm]>>] :
        t \in {"public", "private"}, adm \in BOOLEAN}

GroupRegCount ==
    Cardinality({<<c, u>> \in Conns \X GroupRegisterIds : u \in registered[c]})

GroupNext ==
    \/ \E c \in Conns : Connect(c)
    \/ \E c \in Conns : Disconnect(c)
    \/ \E c \in Conns, u \in GroupRegisterIds :
          (u \in registered[c] \/ GroupRegCount < MaxGroupRegs) /\ Register(c, u)
    \/ \E l \in lookups, ok \in BOOLEAN : LookupDone(l, ok)
    \/ \E c \in Conns, chatId \in GroupChatIds, sender \in Senders :
          Len(sends) < MaxSends /\ SendMessage(c, chatId, sender)
    \/ \E i \in 1..Len(sends), ok \in BOOLEAN : InsertDone(i, ok)
    \/ \E i \in 1..Len(sends), ok \in BOOLEAN : GroupInfoDone(i, ok)
    \/ \E i \in 1..Len(sends), ok \in BOOLEAN : MemberDone(i, ok)
    \/ \E data \in GroupDatas : Len(creates) < MaxCreates /\ CreateGroup(data)
    \/ \E i \in 1..Len(creates), ok \in BOOLEAN : GroupInsertDone(i, ok)
    \/ \E i \in 1..Len(creates), ok \in BOOLEAN : MemberInsertDone(i, ok)
    \/ \E i \in 1..Len(creates), ok \in BOOLEAN : CreatorInsertDone(i, ok)

GroupSpec == Init /\ [][GroupNext]_vars

(***************************************************************************)
(* The server: the alias registry alone                                    *)
(***************************************************************************)

Short12 == <<"1", "2">>
ShortX12 == <<"x", "1", "2">>
Letters == <<"b", "o", "b">>

RegistryIds == {<<>>, UserA, UserAcc, Short12, ShortX12, Letters}
JoinIds == {Short12}

RegistryRegCount ==
    Cardinality({<<c, u>> \in Conns \X RegistryIds : u \in registered[c]})

RegistryNext ==
    \/ \E c \in 1..RegistryConns : Connect(c)
    \/ \E c \in 1..RegistryConns : Disconnect(c)
    \/ \E c \in 1..RegistryConns, u \in RegistryIds :
          (u \in registered[c] \/ RegistryRegCount < MaxRegistryRegs)
              /\ Register(c, u)
    \/ \E c \in 1..RegistryConns, r \in JoinIds : JoinChat(c, r)
    \/ \E l \in lookups, ok \in BOOLEAN : LookupDone(l, ok)

RegistrySpec == Init /\ [][RegistryNext]_vars

(***************************************************************************)
(* The server: the message log of private chats                            *)
(***************************************************************************)

MaxLogSends == 2
LogConns == 1

LogChatIds == {Chat(UserA, KeyB), Chat(UserBcc, UserAcc), Chat(UserA, KeyC)}
LogSenders == {UserA}

LogNext ==
    \/ \E c \in 1..LogConns : Connect(c)
    \/ \E c \in 1..LogConns : Disconnect(c)
    \/ \E c \in 1..LogConns, chatId \in LogChatIds, sender \in LogSenders :
          Len(sends) < MaxLogSends /\ SendMessage(c, chatId, sender)
    \/ \E i \in 1..Len(sends), ok \in BOOLEAN : InsertDone(i, ok)

LogSpec == Init /\ [][LogNext]_vars

(***************************************************************************)
(* The server: events that name no participant or a short one              *)
(***************************************************************************)

MaxDiscardSends == 2
DiscardConns == 1

DiscardJoinIds == {Short12}
DiscardChatIds == {<<>>, Chat(ShortX12, UserA)}
DiscardSenders == {<<>>, ShortX12, UserA}

DiscardNext ==
    \/ \E c \in 1..DiscardConns : Connect(c)
    \/ \E c \in 1..DiscardConns : Disconnect(c)
    \/ \E c \in 1..DiscardConns, r \in DiscardJoinIds : JoinChat(c, r)
    \/ \E c \in 1..DiscardConns, chatId \in DiscardChatIds,
          sender \in DiscardSenders :
          Len(sends) < MaxDiscardSends /\ SendMessage(c, chatId, sender)
    \/ \E i \in 1..Len(sends), ok \in BOOLEAN : InsertDone(i, ok)

DiscardSpec == Init /\ [][DiscardNext]_vars

(***************************************************************************)
(* The server: create_group with member lists of every shape               *)
(***************************************************************************)

MaxCreateRuns == 2

\* Member lists: empty, without the creator, the creator as a plain member
\* under another spelling, one participant twice, one participant under two
\* spellings.
MemberLists ==
    {<<>>,
     <<[id |-> UserBcc, isAdmin |-> FALSE]>>,
     <<[id |-> UserAcc, isAdmin |-> FALSE]>>,
     <<[id |-> UserBcc, isAdmin |-> FALSE], [id |-> UserBcc, isAdmin |-> FALSE]>>,
     <<[id |-> KeyB, isAdmin |-> TRUE], [id |-> UserBcc, isAdmin |-> FALSE]>>}

CreateDatas ==
    {[id |-> GroupId1, createdBy |-> UserA, type |-> "public", members |-> ms] :
        ms \in MemberLists}

CreateNext ==
    \/ \E data \in CreateDatas : Len(creates) < MaxCreateRuns /\ CreateGroup(data)
    \/ \E i \in 1..Len(creates), ok \in BOOLEAN : GroupInsertDone(i, ok)
    \/ \E i \in 1..Len(creates), ok \in BOOLEAN : MemberInsertDone(i, ok)
    \/ \E i \in 1..Len(creates), ok \in BOOLEAN : CreatorInsertDone(i, ok)

CreateSpec == Init /\ [][CreateNext]_vars

(***************************************************************************)
(* The server: status posts                                                *)
(***************************************************************************)

MaxClock == 3
MaxRequests == 2
StatusJoinIds == {Short12}

StatusInit ==
    /\ SysInit
    /\ driver \in {"sqlite", "mysql"}
    /\ kIn = <<>>
    /\ kOut = <<>>

StatusNext ==
    \/ \E c \in Conns : Connect(c)
    \/ \E c \in Conns : Disconnect(c)
    \/ \E c \in Conns, r \in StatusJoinIds : JoinChat(c, r)
    \/ now < MaxClock /\ Tick
    \/ Len(requests) < MaxRequests /\ PostStatus
    \/ \E i \in 1..Len(requests), ok \in BOOLEAN : StatusInsertDone(i, ok)
    \/ Len(requests) < MaxRequests /\ ListStatus
    \/ \E i \in 1..Len(requests), ok \in BOOLEAN : ListDone(i, ok)

StatusSpec == StatusInit /\ [][StatusNext]_vars

(***************************************************************************)
(* The server: call signalling                                             *)
(***************************************************************************)

MaxCalls == 1
CallConns == 1

CallJoinIds == {KeyA}
CallIds == {<<>>, UserAcc, ShortX12}
CallFroms == {UserAcc, UserBcc}
CallDatas ==
    {[id |-> GroupId1, createdBy |-> UserA, type |-> "public",
      members |-> <<[id |-> Letters, isAdmin |-> FALSE]>>]}

CallNext ==
    \/ \E c \in 1..CallConns : Connect(c)
    \/ \E c \in 1..CallConns : Disconnect(c)
    \/ \E c \in 1..CallConns, r \in CallJoinIds : JoinChat(c, r)
    \/ \E data \in CallDatas : Len(creates) < MaxCreates /\ CreateGroup(data)
    \/ \E i \in 1..Len(creates), ok \in BOOLEAN : GroupInsertDone(i, ok)
    \/ \E i \in 1..Len(creates), ok \in BOOLEAN : MemberInsertDone(i, ok)
    \/ \E i \in 1..Len(creates), ok \in BOOLEAN : CreatorInsertDone(i, ok)
    \/ \E c \in 1..CallConns, id \in CallIds :
          Len(calls) < MaxCalls /\ CallUser(c, id)
    \/ \E c \in 1..CallConns, id \in CallIds :
          Len(calls) < MaxCalls /\ RejectCall(c, id)
    \/ \E c \in 1..CallConns, id \in CallIds :
          Len(calls) < MaxCalls /\ EndCall(c, id)
    \/ \E c \in 1..CallConns, from \in CallFroms :
          Len(calls) < MaxCalls /\ GroupCall(c, GroupId1, from)
    \/ \E i \in 1..Len(calls), ok \in BOOLEAN : GroupCallDone(i, ok)

CallSpec == Init /\ [][CallNext]_vars

(***************************************************************************)
(* The server: sends and history fetches                                   *)
(***************************************************************************)

MaxHistorySends == 2
MaxFetches == 1
HistoryConns == 1

GroupIdOne == <<"1">>
HistoryChatIds == {Chat(UserA, KeyB), Chat(UserBcc, UserAcc), GroupId1, GroupIdOne}
HistorySenders == {UserA}

HistoryNext ==
    \/ \E c \in 1..HistoryConns : Connect(c)
    \/ \E c \in 1..HistoryConns : Disconnect(c)
    \/ \E c \in 1..HistoryConns, chatId \in HistoryChatIds, sender \in HistorySenders :
          Len(sends) < MaxHistorySends /\ SendMessage(c, chatId, sender)
    \/ \E i \in 1..Len(sends), ok \in BOOLEAN : InsertDone(i, ok)
    \/ \E i \in 1..Len(sends), ok \in BOOLEAN : GroupInfoDone(i, ok)
    \/ \E chatId \in HistoryChatIds :
          Len(requests) < MaxFetches /\ FetchMessages(chatId)
    \/ \E i \in 1..Len(requests), ok \in BOOLEAN : FetchDone(i, ok)

HistorySpec == Init /\ [][HistoryNext]_vars

(***************************************************************************)
(* Properties                                                              *)
(***************************************************************************)

\* Value of a digit character.
DigitVal(ch) == (CHOOSE i \in 1..Len(DigitChars) : DigitChars[i] = ch) - 1

\* Key a comes before key b: at the first position where they differ, a has
\* the smaller digit.
KeyBefore(a, b) ==
    \E i \in 1..Len(a) :
        /\ i <= Len(b)
        /\ \A j \in 1..(i - 1) : a[j] = b[j]
        /\ DigitVal(a[i]) < DigitVal(b[i])

\* The two keys joined by '_', the smaller one first.
Ascending(a, b) == IF KeyBefore(b, a) THEN Chat(b, a) ELSE Chat(a, b)

\* C1: for two participants written in any spelling (bare, '+91', '91' or '0'
\* in front of the ten digits), the key derived from "a_b" and the key derived
\* from "b_a" are the same value, the two ten-digit keys joined by '_' in
\* ascending order.
C1_KeyCommutes ==
    kOut # <<>> =>
        /\ kOut[1] = kOut[2]
        /\ kOut[1] = Ascending(kIn[1].key, kIn[2].key)

\* C1 witness: keys derived for two different participants, both written with
\* a prefix, the first of them the larger key (so sorting swaps the parts).
C1_Witness ==
    /\ kOut # <<>>
    /\ kIn[1].prefix # <<>>
    /\ kIn[2].prefix # <<>>
    /\ KeyBefore(kIn[2].key, kIn[1].key)

\* Raw chat id a stored message was sent on.
RawOf(m) == sends[m.send].chatId

\* The chat id has the two-part shape of a private chat.
TwoPart(raw) == Len(Split(raw)) = 2

\* The participant keys a two-part chat id names.
Participants(raw) == {clean(Split(raw)[1]), clean(Split(raw)[2])}

\* Canonical conversation id of a two-part chat id.
Canonical(raw) == Ascending(clean(Split(raw)[1]), clean(Split(raw)[2]))

\* C2: every stored message sent on a two-part chat id carries the canonical
\* conversation id, and two stored messages sent on chat ids that name the
\* same two participants, in any spelling and order, carry the same chatId.
C2_OneConversation ==
    \A i, j \in 1..Len(messages) :
        (TwoPart(RawOf(messages[i])) /\ TwoPart(RawOf(messages[j]))
            /\ Participants(RawOf(messages[i])) = Participants(RawOf(messages[j])))
        => /\ messages[i].chatId = Canonical(RawOf(messages[i]))
           /\ messages[i].chatId = messages[j].chatId

\* C2 witness: two stored messages of the same two participants whose raw
\* chat ids name them in opposite order and in different spellings.
C2_Witness ==
    /\ Len(messages) = 2
    /\ RawOf(messages[1]) = Chat(UserA, KeyB)
    /\ RawOf(messages[2]) = Chat(UserBcc, UserAcc)

\* C3: a message sent on a chat id that does not have the two-part shape (no
\* '_', or more than one) is stored, and handed to the fanout, under the raw
\* id unchanged.
C3_GroupIdUnchanged ==
    \A k \in 1..Len(messages) :
        ~TwoPart(RawOf(messages[k]))
        => /\ messages[k].chatId = RawOf(messages[k])
           /\ sends[messages[k].send].normChatId = RawOf(messages[k])

\* C4 as stated: right after register(rawId) with a non-empty rawId the
\* connection is in room rawId, it is in room normalize(rawId) when that has
\* ten digits, and it is in no room normalize(rawId) of fewer than ten digits.
C4_NeverInShortRoom ==
    [][\A c \in Conns, u \in RegistryIds :
          (u # <<>> /\ Register(c, u))
          => /\ u \in rooms'[c]
             /\ Len(clean(u)) = KeyLen => clean(u) \in rooms'[c]
             /\ Len(clean(u)) < KeyLen => clean(u) \notin rooms'[c]]_vars

\* C4 amended: register(rawId) with a non-empty rawId adds to the connection's
\* rooms exactly rawId and, when normalize(rawId) has ten digits, that key; a
\* normalized key of fewer than ten digits is never added on its account (the
\* connection is in such a room only if it is rawId itself or was joined
\* before).
C4_RegisterJoins ==
    [][\A c \in Conns, u \in RegistryIds :
          (u # <<>> /\ Register(c, u))
          => rooms'[c] = rooms[c] \cup {u} \cup
                (IF Len(clean(u)) = KeyLen THEN {clean(u)} ELSE {})]_vars

\* C4 witness: one connection registered "x12" and "+919876543210"; it is in
\* those two rooms and in "9876543210", and not in "12".
C4_Witness ==
    \E c \in Conns :
        /\ registered[c] = {ShortX12, UserAcc}
        /\ rooms[c] = {ShortX12, UserAcc, KeyA}

\* The connection is open and has registered a spelling of one of the keys.
RegisteredAs(c, keys) ==
    conn[c] = "open" /\ \E u \in registered[c] : clean(u) \in keys

\* Connections that received an emit of dispatch d.
Receivers(d) == UNION {d.emits[k].rcpt : k \in 1..Len(d.emits)}

\* C5: when the append of a private send succeeds, and the chat id names two
\* ten-digit participants of whom the sender is one, every open connection
\* that registered a spelling of either participant receives receive_message,
\* and the stored row and the payload carry the canonical chatId.
C5_PrivateDelivery ==
    [][\A i \in 1..Len(sends) :
          (/\ sends[i].pc = "insert"
           /\ sends'[i].outcome = "sent"
           /\ \A p \in Participants(sends[i].chatId) : Len(p) = KeyLen
           /\ clean(sends[i].sender) \in Participants(sends[i].chatId))
          => /\ \A c \in Conns :
                   RegisteredAs(c, Participants(sends[i].chatId))
                   => c \in Receivers(sends'[i])
             /\ sends'[i].normChatId = Canonical(sends[i].chatId)
             /\ messages'[Len(messages')].chatId = Canonical(sends[i].chatId)]_vars

\* C5 witness: A registered as "+919876543210" on one connection, B as
\* "+919123456789" on the other, A sent on "+919123456789_+919876543210" as
\* "9876543210", and both connections received the message.
C5_Witness ==
    \E i \in 1..Len(sends) :
        /\ sends[i].outcome = "sent"
        /\ sends[i].chatId = Chat(UserBcc, UserAcc)
        /\ sends[i].sender = UserA
        /\ \E a, b \in Conns :
              /\ a # b
              /\ registered[a] = {UserAcc}
              /\ registered[b] = {UserBcc}
              /\ {a, b} \subseteq Receivers(sends[i])

\* The group is in groups_table with visibility 'private'.
IsPrivateGroup(id) == \E g \in groups_table : g.id = id /\ g.type = "private"

\* The key holds an 'admin' row of the group.
HasAdminRow(id, key) ==
    \E j \in 1..Len(group_members) :
        /\ group_members[j].groupId = id
        /\ group_members[j].userId = key
        /\ group_members[j].role = "admin"

\* C6: a send to a private group by a sender without an admin row, stopped by
\* the permission check, has emitted receive_message to no room other than
\* rooms of the sender, so no connection other than the sending one and those
\* registered as the sender has received it: not a member, not the creator.
C6_BlockedSendsNothing ==
    \A i \in 1..Len(sends) :
        (/\ sends[i].outcome = "blocked"
         /\ IsPrivateGroup(sends[i].chatId)
         /\ ~HasAdminRow(sends[i].chatId, clean(sends[i].sender)))
        => \A c \in Receivers(sends[i]) :
              \/ c = sends[i].conn
              \/ \E u \in registered[c] : clean(u) = clean(sends[i].sender)

\* The key has a row in the group's membership.
HasRow(id, key) ==
    \E j \in 1..Len(group_members) :
        group_members[j].groupId = id /\ group_members[j].userId = key

\* The send is one the permission rule allows: the dispatch found the group,
\* and the group is public or the sender holds an admin row.
Allowed(d) ==
    /\ d.info # <<>>
    /\ d.info[1].type = "private" => HasAdminRow(d.chatId, clean(d.sender))

\* The step ends dispatch i in the group broadcast.
Broadcasts(i) ==
    /\ i \in 1..Len(sends)
    /\ sends[i].pc # "done"
    /\ sends'[i].pc = "done"
    /\ sends'[i].outcome = "refError"

\* C7: an allowed group send whose append succeeded emits receive_message to
\* the raw, normalized and '+'-prefixed rooms of every row of the group's
\* membership, so every open connection registered as a member receives it,
\* whether or not it is in the group-id room.
C7_MembersReceive ==
    [][\A i \in 1..Len(sends) :
          (Broadcasts(i) /\ Allowed(sends'[i]))
          => \A c \in Conns :
                (/\ conn[c] = "open"
                 /\ \E u \in registered[c] : HasRow(sends[i].chatId, clean(u)))
                => c \in Receivers(sends'[i])]_vars

\* An open connection of the creator: registered under the creator id as
\* stored, or under a spelling with the same ten-digit key.
CreatorConn(c, createdBy) ==
    /\ conn[c] = "open"
    /\ \E u \in registered[c] :
          \/ u = createdBy
          \/ clean(u) = clean(createdBy) /\ Len(clean(u)) = KeyLen

EmittedRooms(d) == {d.emits[k].room : k \in 1..Len(d.emits)}

\* The canonical conversation id with its two keys swapped.
CanonicalReversed(raw) ==
    LET a == clean(Split(raw)[1])
        b == clean(Split(raw)[2])
    IN  IF KeyBefore(b, a) THEN Chat(a, b) ELSE Chat(b, a)

\* C9: a private send whose append succeeded has emitted receive_message to
\* the canonical conversation room, to the room naming the two keys in the
\* reversed order, to the key of the receiver (the part that is not the
\* sender's key) and to the key of the sender.
C9_PrivateTargetRooms ==
    \A i \in 1..Len(sends) :
        (/\ sends[i].outcome = "sent"
         /\ \A p \in Participants(sends[i].chatId) : Len(p) = KeyLen
         /\ Cardinality(Participants(sends[i].chatId)) = 2
         /\ clean(sends[i].sender) \in Participants(sends[i].chatId))
        => /\ Canonical(sends[i].chatId) \in EmittedRooms(sends[i])
           /\ CanonicalReversed(sends[i].chatId) \in EmittedRooms(sends[i])
           /\ Participants(sends[i].chatId) \subseteq EmittedRooms(sends[i])

\* C10: when the append of a message fails, for a private or a group chat id,
\* the dispatch ends having emitted receive_message to no room, and the
\* message log is as it was.
C10_FailedAppendSendsNothing ==
    [][\A i \in 1..Len(sends) :
          (sends[i].pc = "insert" /\ sends'[i].outcome = "insertError")
          => /\ sends'[i].pc = "done"
             /\ sends'[i].emits = <<>>
             /\ messages' = messages
             /\ rooms' = rooms]_vars

\* C10 witness: the append of a private send failed while an open connection
\* registered as one of the two participants was waiting in its rooms.
C10_Witness ==
    \E i \in 1..Len(sends), c \in Conns :
        /\ sends[i].outcome = "insertError"
        /\ TwoPart(sends[i].chatId)
        /\ RegisteredAs(c, Participants(sends[i].chatId))
        /\ messages = <<>>

\* Events of dispatch d that reached the socket it arrived on.  The handler
\* takes no acknowledgement callback and never calls socket.emit, so the
\* emits to rooms the socket is in are all the sending client ever gets.
CallerEvents(d) == {k \in 1..Len(d.emits) : d.conn \in d.emits[k].rcpt}

\* C11: when the append of a message fails, the connection that sent the
\* send_message event is told so (some event of the dispatch reaches it), and
\* no other connection receives anything.
C11_FailureReportedToCaller ==
    \A i \in 1..Len(sends) :
        sends[i].outcome = "insertError"
        => /\ CallerEvents(sends[i]) # {}
           /\ Receivers(sends[i]) \subseteq {sends[i].conn}

\* C12: a send_message event with an empty or missing chatId or sender is
\* discarded: the step that handles it leaves the message log and every
\* connection's rooms as they were and emits nothing, the dispatch is over
\* with it, and no stored message ever comes from such an event.
C12_InvalidSendDiscarded ==
    /\ [](\A k \in 1..Len(messages) :
              /\ sends[messages[k].send].chatId # <<>>
              /\ sends[messages[k].send].sender # <<>>)
    /\ [][\A c \in Conns, chatId \in DiscardChatIds, sender \in DiscardSenders :
            ((chatId = <<>> \/ sender = <<>>) /\ SendMessage(c, chatId, sender))
            => /\ messages' = messages
               /\ rooms' = rooms
               /\ sends'[Len(sends')].pc = "done"
               /\ sends'[Len(sends')].emits = <<>>]_vars

\* C12 witness: an event with a chat id and no sender was discarded on a
\* connection that is in rooms, after a message had been stored and delivered.
C12_Witness ==
    \E i \in 1..Len(sends) :
        /\ sends[i].outcome = "rejected"
        /\ sends[i].chatId # <<>>
        /\ sends[i].sender = <<>>
        /\ rooms[sends[i].conn] # {}
        /\ Len(messages) = 1
        /\ sends[i].emits = <<>>

\* C13: when a group query of register(rawId) resolves on a connection that
\* is still connected, the connection is in the group-id room of every group
\* found in the tables at that moment: the
\* membership query covers every row of normalize(rawId), the creator query
\* every group created by rawId or by normalize(rawId).  After both have
\* resolved the connection is in all of them for as long as it stays
\* connected, since rooms are only ever left by disconnect.
C13_AutoJoin ==
    [][\A l \in lookups :
          (conn[l.conn] = "open" /\ LookupDone(l, TRUE))
          => /\ l.kind = "member" =>
                   \A j \in 1..Len(group_members) :
                       group_members[j].userId = clean(l.userId)
                       => group_members[j].groupId \in rooms'[l.conn]
             /\ l.kind = "creator" =>
                   \A g \in groups_table :
                       g.createdBy \in {l.userId, clean(l.userId)}
                       => g.id \in rooms'[l.conn]]_vars

\* C13 witness: a connection registered "+919876543210" after the group of
\* creator "9876543210" was stored without a row for the creator; both queries
\* are done, nothing was sent, and the connection is in the group-id room.
C13_Witness ==
    \E c \in Conns :
        /\ conn[c] = "open"
        /\ registered[c] = {UserAcc}
        /\ lookups = {}
        /\ sends = <<>>
        /\ \E g \in groups_table : g.id = GroupId1 /\ g.createdBy = UserA
        /\ ~HasRow(GroupId1, KeyA)
        /\ GroupId1 \in rooms[c]

\* C14: a stored group with a non-empty creator has a membership row of role
\* 'admin' for the creator's key.  Stated for the groups whose creator has a
\* membership row at all: that row, or another one of the creator, is an
\* 'admin' row, also when the member list named the creator as a plain member.
C14_CreatorIsAdmin ==
    \A g \in groups_table :
        (g.createdBy # <<>> /\ HasRow(g.id, clean(g.createdBy)))
        => HasAdminRow(g.id, clean(g.createdBy))

\* C15: group_members holds at most one row for a group id and a participant
\* key.
C15_OneRowPerMember ==
    \A i, j \in 1..Len(group_members) :
        (/\ group_members[i].groupId = group_members[j].groupId
         /\ group_members[i].userId = group_members[j].userId)
        => i = j

\* Rows of table status that request i stored.
PostsOf(i) == {k \in 1..Len(status) : status[k].post = i}

\* C16: every POST /api/status that the database did not reject, whatever
\* number of sockets has connected so far (none, one or several), has stored
\* exactly one row, which expires one day after the request, and has emitted
\* new_status once.
C16_PostStatusStoresAndEmits ==
    \A i \in 1..Len(requests) :
        (/\ requests[i].method = "POST"
         /\ requests[i].pc = "done"
         /\ requests[i].code # 500)
        => /\ Cardinality(PostsOf(i)) = 1
           /\ \A k \in PostsOf(i) :
                 DateParse(status[k].expiresAt) = requests[i].at + TicksPerDay
           /\ Len(requests[i].emits) = 1

\* C17: a listing answers with the rows that had not expired when it ran,
\* newest first: no row it returns has an expiresAt earlier than that moment.
C17_ListingHidesExpired ==
    \A i \in 1..Len(requests) :
        (requests[i].method = "GET" /\ requests[i].code = 200)
        => /\ \A k \in 1..Len(requests[i].rows) :
                 DateParse(requests[i].rows[k].expiresAt) >= requests[i].at
           /\ \A k \in 1..(Len(requests[i].rows) - 1) :
                 DateParse(requests[i].rows[k].timestamp)
                    >= DateParse(requests[i].rows[k + 1].timestamp)

\* The three rooms of a membership row: the user id as stored, its cleaned
\* form and '+' in front of the cleaned form.
RowRooms(userId) == {userId, clean(userId), <<"+">> \o clean(userId)}

\* C18 as stated: when the membership query of a group_call resolves,
\* incoming_call is emitted to the three rooms of every row of the group whose
\* key differs from the caller's, to no room of a row whose key is the
\* caller's, and the message log is as it was.
C18_EveryRowCalled ==
    [][\A i \in 1..Len(calls) :
          (calls[i].pc = "members" /\ GroupCallDone(i, TRUE))
          => /\ \A j \in 1..Len(group_members) :
                   group_members[j].groupId = calls[i].groupId
                   => IF clean(group_members[j].userId) # clean(calls[i].id)
                      THEN RowRooms(group_members[j].userId)
                              \subseteq EmittedRooms(calls'[i])
                      ELSE RowRooms(group_members[j].userId)
                              \cap EmittedRooms(calls'[i]) = {}
             /\ messages' = messages]_vars

\* C18 amended: the same for the rows whose user id is not empty; a row with
\* an empty user id (a member whose id had no digit) is passed over, and so
\* is every row when the membership query is rejected.
C18_NonEmptyRowsCalled ==
    [][\A i \in 1..Len(calls) :
          (calls[i].pc = "members" /\ GroupCallDone(i, TRUE))
          => /\ \A j \in 1..Len(group_members) :
                   (/\ group_members[j].groupId = calls[i].groupId
                    /\ group_members[j].userId # <<>>)
                   => IF clean(group_members[j].userId) # clean(calls[i].id)
                      THEN RowRooms(group_members[j].userId)
                              \subseteq EmittedRooms(calls'[i])
                      ELSE RowRooms(group_members[j].userId)
                              \cap EmittedRooms(calls'[i]) = {}
             /\ messages' = messages]_vars

\* C18 witness: the group has its two rows (a member without digits and the
\* creator), "+919123456789" called, and incoming_call went to the rooms of
\* the creator's row only and reached a connection there.
C18_Witness ==
    \E i \in 1..Len(calls) :
        /\ calls[i].event = "group_call"
        /\ calls[i].pc = "done"
        /\ calls[i].id = UserBcc
        /\ Len(group_members) = 2
        /\ EmittedRooms(calls[i]) = {KeyA, <<"+">> \o KeyA}
        /\ Receivers(calls[i]) # {}
        /\ messages = <<>>

\* C19: call_user, reject_call and end_call each emit once, to the room
\* named by the cleaned id they were given (receiver, caller, receiver) and to
\* no other room, and leave every table as it was.
C19_SignalToKeyOnly ==
    [][\A c \in Conns, id \in CallIds :
          (CallUser(c, id) \/ RejectCall(c, id) \/ EndCall(c, id))
          => /\ Len(calls') = Len(calls) + 1
             /\ Len(calls'[Len(calls')].emits) = 1
             /\ calls'[Len(calls')].emits[1].room = clean(id)
             /\ messages' = messages
             /\ status' = status
             /\ groups_table' = groups_table
             /\ group_members' = group_members]_vars

\* C19 witness: call_user for "+919876543210" went to room "9876543210"
\* alone and reached the connection in it.
C19_Witness ==
    \E i \in 1..Len(calls) :
        /\ calls[i].event = "call_user"
        /\ calls[i].id = UserAcc
        /\ EmittedRooms(calls[i]) = {KeyA}
        /\ Receivers(calls[i]) # {}
        /\ messages = <<>>

\* The room is named by digits only, fewer than ten of them: a cleaned id that
\* is not a participant key.
ShortKeyRoom(r) == Len(r) < KeyLen /\ \A k \in 1..Len(r) : IsDigit(r[k])

\* C20: no emit of a message dispatch goes to a room named by a cleaned id of
\* fewer than ten digits.
C20_NoShortKeyTarget ==
    \A i \in 1..Len(sends) :
        \A r \in EmittedRooms(sends[i]) : ~ShortKeyRoom(r)

\* C21: join_chat of a room the connection is in, and register of an id the
\* connection has registered, leave its rooms as they are; and a step that is
\* not the connection's disconnect never takes a room from it.
C21_JoinsIdempotentAdditive ==
    [][/\ \A c \in Conns, r \in JoinIds :
             (JoinChat(c, r) /\ r \in rooms[c]) => rooms' = rooms
       /\ \A c \in Conns, u \in RegistryIds :
             (Register(c, u) /\ u \in registered[c]) => rooms' = rooms
       /\ \A c \in Conns :
             Disconnect(c) \/ rooms[c] \subseteq rooms'[c]]_vars

\* C21 witness: an open connection that has registered "+919876543210" and
\* joined "12", with both group queries done: every further register of that
\* id and join_chat of that room is a repeated one, and ends in this state.
C21_Witness ==
    \E c \in Conns :
        /\ conn[c] = "open"
        /\ registered[c] = {UserAcc}
        /\ rooms[c] = {UserAcc, KeyA, Short12}
        /\ lookups = {}

\* Two raw chat ids name the same conversation: the same two participants in
\* any spelling and order, or else the same id.
SameConversation(x, y) ==
    IF TwoPart(x) /\ TwoPart(y) THEN Participants(x) = Participants(y)
    ELSE x = y

\* C22: a history fetch for chat id X returns every stored message that was
\* sent on X or, for a private chat id, on another spelling or order of the
\* same two participants (checked when the SELECT resolves), and returns no
\* message of another conversation.
C22_HistoryOfConversation ==
    /\ [][\A i \in 1..Len(requests) :
             (requests[i].pc = "select" /\ requests'[i].code = 200)
             => \A k \in 1..Len(messages) :
                   SameConversation(RawOf(messages[k]), requests[i].chatId)
                   => \E n \in 1..Len(requests'[i].rows) :
                         requests'[i].rows[n] = messages[k]]_vars
    /\ [](\A i \in 1..Len(requests) :
             requests[i].method = "GET messages"
             => \A n \in 1..Len(requests[i].rows) :
                   SameConversation(RawOf(requests[i].rows[n]),
                                    requests[i].chatId))

\* C23: once the append of a send_message dispatch has returned, the dispatch
\* runs to the end of its fanout before any other event is processed: while a
\* dispatch has appended and not yet finished, every step is a step of that
\* dispatch.
C23_FanoutFollowsAppend ==
    [][\A i \in 1..Len(sends) :
          sends[i].pc \in {"groupInfo", "member"} => sends'[i] # sends[i]]_vars

\* C24: the rooms of the connections change only in a step of register, of the
\* completion of its group queries, of join_chat or of disconnect; every step
\* of a send_message or create_group handler leaves them as they were.
C24_RoomsChangedByRegistryOnly ==
    [][rooms' # rooms
       => \/ \E c \in Conns : Disconnect(c)
          \/ \E c \in Conns, u \in GroupRegisterIds : Register(c, u)
          \/ \E l \in lookups, ok \in BOOLEAN : LookupDone(l, ok)]_vars

\* Emits of dispatch d that reached connection c.
CopiesTo(d, c) == {k \in 1..Len(d.emits) : c \in d.emits[k].rcpt}

\* C25: for every dispatch and every connection, the number of copies of
\* receive_message the connection received equals the number of distinct
\* target rooms through which it received one.
C25_OneCopyPerRoom ==
    \A i \in 1..Len(sends) : \A c \in Conns :
        Cardinality(CopiesTo(sends[i], c))
            = Cardinality({sends[i].emits[k].room : k \in CopiesTo(sends[i], c)})

\* C26: a group query of register that resolves after its connection has
\* disconnected adds no room to that connection, which stays in no room.
C26_NoJoinAfterDisconnect ==
    [][\A l \in lookups :
          (conn[l.conn] = "closed" /\ LookupDone(l, TRUE))
          => rooms'[l.conn] = rooms[l.conn]]_vars

\* C27: when the INSERT of a create_group settles for a group id that already
\* has a row, the handler ends there: groups_table and group_members are as
\* they were, nothing has been emitted by the handler, and a handler that has
\* ended does nothing more.
C27_DuplicateCreateNoEffect ==
    [][/\ \A i \in 1..Len(creates), ok \in BOOLEAN :
             (/\ GroupInsertDone(i, ok)
              /\ \E g \in groups_table : g.id = creates[i].data.id)
             => /\ groups_table' = groups_table
                /\ group_members' = group_members
                /\ creates'[i].pc = "done"
                /\ creates'[i].emits = <<>>
       /\ \A i \in 1..Len(creates) :
             creates[i].pc = "done" => creates'[i] = creates[i]]_vars

\* C27 witness: two create_group events for 'g1'; the first stored the group,
\* its member row and notified the member, the second, with a member list of
\* its own, has ended with nothing emitted, and the rows are those of the first.
C27_Witness ==
    /\ Len(creates) = 2
    /\ creates[1].pc = "done" /\ creates[2].pc = "done"
    /\ creates[1].data.members = <<[id |-> UserBcc, isAdmin |-> FALSE]>>
    /\ creates[1].emits # <<>>
    /\ Len(creates[2].data.members) = 2
    /\ creates[2].emits = <<>>
    /\ \E g \in groups_table : g.id = GroupId1
    /\ Len(group_members) = 2
    /\ group_members[1].userId = KeyB /\ group_members[2].userId = KeyA

====
